---- MODULE Spec2Model ----
\* Model of generate-index.py, the index-generation pipeline of MetaCreativeDocs, of
\* the sort button of the page it writes, and of markdown_to_html_custom of
\* metacure_document_converter.py.
\* Strings are sequences of Unicode code points, so that the ASCII test, the
\* filename regexes and the number formatting are computed character by character.
EXTENDS Integers, Sequences, FiniteSets, TLC

\* ---------------------------------------------------------------- bounds
MaxFiles == 3      \* entries in the scan directory at the start
MaxTick == 1       \* seconds the clock may advance during the runs
MaxRuns == 2       \* invocations of generate_index
MaxToggles == 2    \* clicks on the sort button of one page
MaxPair == 2       \* entries in a scan directory of names with sequence numbers
MaxLines == 4      \* lines of a markdown text

\* ---------------------------------------------------------------- characters
AsciiLimit == 128  \* str.encode('ascii') accepts code points below 128
ChDot == 46        \* '.'
ChUnderscore == 95 \* '_'
ChDash == 45       \* '-'
ChHash == 35       \* '#'
ChSpace == 32      \* ' '
ChZero == 48       \* '0'
ChNine == 57       \* '9'

HtmlExt == <<46,104,116,109,108>>       \* ".html"
DocPrefix == <<100,111,99,45>>          \* "doc-"
DOCS_DIR == <<100,111,99,115>>          \* "docs"
PathSep == <<47>>                       \* "/"
BASE_URL == <<104,116,116,112,115,58,47,47,116,97,109,107,97,105,46,103,105,116,104,117,98,46,105,111,47,77,101,116,97,67,114,101,97,116,105,118,101,68,111,99,115,47>>
NoDateKey == <<48,48,48,48,48,48,48,48>> \* "00000000"
None == <<>>                             \* Python's None (falsy, like the empty string)

\* ---------------------------------------------------------------- string helpers
IsDigit(c) == c >= ChZero /\ c <= ChNine

IsSpace(c) == c \in {ChSpace, 9, 10, 13}

\* s[a..b], empty when a > b
Slice(s, a, b) == IF a > b THEN <<>> ELSE SubSeq(s, a, b)

\* str.startswith
StartsWith(s, p) == Len(s) >= Len(p) /\ Slice(s, 1, Len(p)) = p

\* str.endswith
EndsWith(s, p) == Len(s) >= Len(p) /\ Slice(s, Len(s) - Len(p) + 1, Len(s)) = p

\* str.rfind('.') as a 1-based index, 0 when absent
RECURSIVE RFindFrom(_, _)
RFindFrom(s, i) == IF i = 0 \/ s[i] = ChDot THEN i ELSE RFindFrom(s, i - 1)

RFindDot(s) == RFindFrom(s, Len(s))

\* pathlib: the suffix starts at the last dot unless that dot is first or last
Suffix(name) ==
    LET d == RFindDot(name)
    IN IF d > 1 /\ d < Len(name) THEN Slice(name, d, Len(name)) ELSE <<>>

Stem(name) ==
    LET d == RFindDot(name)
    IN IF d > 1 /\ d < Len(name) THEN Slice(name, 1, d - 1) ELSE name

\* stem.encode('ascii') succeeds
IsAscii(s) == \A i \in 1..Len(s) : s[i] < AsciiLimit

\* str(n) of a natural number
RECURSIVE Dec(_)
Dec(n) == IF n < 10 THEN <<ChZero + n>> ELSE Dec(n \div 10) \o <<ChZero + (n % 10)>>

\* zero-padding to a minimum width, as the format specs :02d, %m, %Y do
RECURSIVE ZFill(_, _)
ZFill(s, w) == IF Len(s) >= w THEN s ELSE ZFill(<<ChZero>> \o s, w)

Format02d(n) == ZFill(Dec(n), 2)

\* int(s) of a string of decimal digits
RECURSIVE ParseInt(_)
ParseInt(s) ==
    IF Len(s) = 0 THEN 0
    ELSE 10 * ParseInt(Slice(s, 1, Len(s) - 1)) + (s[Len(s)] - ChZero)

\* str.strip()
RECURSIVE Strip(_)
Strip(s) ==
    IF Len(s) = 0 THEN s
    ELSE IF IsSpace(s[1]) THEN Strip(Slice(s, 2, Len(s)))
    ELSE IF IsSpace(s[Len(s)]) THEN Strip(Slice(s, 1, Len(s) - 1))
    ELSE s

\* Python's < on str: lexicographic by code point, a proper prefix is smaller
RECURSIVE StrLess(_, _)
StrLess(a, b) ==
    IF Len(b) = 0 THEN FALSE
    ELSE IF Len(a) = 0 THEN TRUE
    ELSE IF a[1] # b[1] THEN a[1] < b[1]
    ELSE StrLess(Slice(a, 2, Len(a)), Slice(b, 2, Len(b)))

\* ---------------------------------------------------------------- the clock
\* datetime.now(): the clock reads 2025-12-01 00:00:00 plus `t` seconds
ClockDate == <<2025, 12, 1>>

\* strftime('%Y%m%d-%H%M%S')
StrftimeStamp(t) ==
    ZFill(Dec(ClockDate[1]), 4) \o ZFill(Dec(ClockDate[2]), 2) \o ZFill(Dec(ClockDate[3]), 2)
    \o <<ChDash>> \o ZFill(Dec(0), 2) \o ZFill(Dec(t \div 60), 2) \o ZFill(Dec(t % 60), 2)

\* strftime('%Y-%m-%d') of a date <<y, m, d>>
StrftimeDate(d) ==
    ZFill(Dec(d[1]), 4) \o <<ChDash>> \o ZFill(Dec(d[2]), 2) \o <<ChDash>> \o ZFill(Dec(d[3]), 2)

\* strftime('%Y-%m-%d %H:%M') of the clock: the "last updated" stamp
StrftimeMinute(t) ==
    StrftimeDate(ClockDate) \o <<ChSpace>> \o ZFill(Dec(0), 2) \o <<58>> \o ZFill(Dec(t \div 60), 2)

\* ---------------------------------------------------------------- sanitize_filename
\* the sanitizer without its ASCII test: every name gets a replacement
sanitize_every_name(filename, t) == DocPrefix \o StrftimeStamp(t) \o Suffix(filename)

sanitize_filename(filename, t) ==
    IF IsAscii(Stem(filename)) THEN None
    ELSE DocPrefix \o StrftimeStamp(t) \o Suffix(filename)

\* ---------------------------------------------------------------- dates from filenames
\* re.match(r'^(\d{8})', filename): the matched group, or None
MatchDate8(filename) ==
    IF Len(filename) >= 8 /\ \A i \in 1..8 : IsDigit(filename[i])
    THEN Slice(filename, 1, 8) ELSE None

IsLeap(y) == (y % 4 = 0 /\ y % 100 # 0) \/ y % 400 = 0

DaysIn(y, m) ==
    IF m = 2 THEN (IF IsLeap(y) THEN 29 ELSE 28)
    ELSE IF m \in {4, 6, 9, 11} THEN 30 ELSE 31

\* a parse that takes the digits as they are, without the calendar check
StrptimeUnchecked(s) ==
    <<ParseInt(Slice(s, 1, 4)), ParseInt(Slice(s, 5, 6)), ParseInt(Slice(s, 7, 8))>>

\* datetime.strptime(s, '%Y%m%d') of 8 digits: <<y, m, d>>, or None on ValueError
Strptime(s) ==
    LET y == ParseInt(Slice(s, 1, 4))
        m == ParseInt(Slice(s, 5, 6))
        d == ParseInt(Slice(s, 7, 8))
    IN IF y >= 1 /\ m >= 1 /\ m <= 12 /\ d >= 1 /\ d <= DaysIn(y, m)
       THEN <<y, m, d>> ELSE None

get_date_from_filename(filename) ==
    IF MatchDate8(filename) # None THEN Strptime(MatchDate8(filename)) ELSE None

\* the longest run of digits of s starting at index i (the greedy \d+), as its last index
RECURSIVE DigitsEnd(_, _)
DigitsEnd(s, i) == IF i <= Len(s) /\ IsDigit(s[i]) THEN DigitsEnd(s, i + 1) ELSE i - 1

\* re.match(r'^(\d{8})(?:_(\d+))?', filename): group 2, or None when it did not take part
MatchSeq(filename) ==
    IF Len(filename) >= 10 /\ filename[9] = ChUnderscore /\ IsDigit(filename[10])
    THEN Slice(filename, 10, DigitsEnd(filename, 10)) ELSE None

get_sort_key_from_filename(filename) ==
    IF MatchDate8(filename) # None
    THEN <<MatchDate8(filename), IF MatchSeq(filename) # None THEN ParseInt(MatchSeq(filename)) ELSE 0>>
    ELSE <<NoDateKey, 0>>

\* ---------------------------------------------------------------- get_html_title
\* re.sub(r'<[^>]+>', '', s): every leftmost '<', one or more non-'>' characters, '>'
RECURSIVE FirstGt(_, _)
FirstGt(s, i) == IF i > Len(s) THEN 0 ELSE IF s[i] = 62 THEN i ELSE FirstGt(s, i + 1)

RECURSIVE StripMarkup(_)
StripMarkup(s) ==
    IF Len(s) = 0 THEN s
    ELSE IF s[1] = 60 /\ FirstGt(s, 2) > 2
         THEN StripMarkup(Slice(s, FirstGt(s, 2) + 1, Len(s)))
         ELSE <<s[1]>> \o StripMarkup(Slice(s, 2, Len(s)))

\* re.IGNORECASE on the ASCII letters
Lower(c) == IF c >= 65 /\ c <= 90 THEN c + 32 ELSE c

LowerStr(s) == [i \in 1..Len(s) |-> Lower(s[i])]

\* str.find(sub, start) with 1-based indices: the first index >= start where sub
\* occurs in s, 0 when there is none
Find(s, sub, start) ==
    LET range == start..(Len(s) - Len(sub) + 1)
        Hit(i) == \A k \in 1..Len(sub) : s[i + k - 1] = sub[k]
    IN IF \E i \in range : Hit(i)
       THEN CHOOSE i \in range : Hit(i) /\ \A j \in start..(i - 1) : ~Hit(j)
       ELSE 0

TitleOpen == <<60,116,105,116,108,101,62>>     \* "<title>"
TitleClose == <<60,47,116,105,116,108,101,62>> \* "</title>"
H1Open == <<60,104,49>>                    \* "<h1"
H1Close == <<60,47,104,49,62>>           \* "</h1>"

\* re.search(r'<title>(.*?)</title>', content, IGNORECASE | DOTALL): group 1 of the
\* leftmost match, the text between the first <title> and the first </title> after
\* it; None without a match
SearchTitle(text) ==
    LET low == LowerStr(text)
        a == Find(low, TitleOpen, 1)
        b == IF a = 0 THEN 0 ELSE Find(low, TitleClose, a + Len(TitleOpen))
    IN IF b = 0 THEN None ELSE Slice(text, a + Len(TitleOpen), b - 1)

\* re.search(r'<h1[^>]*>(.*?)</h1>', content, IGNORECASE | DOTALL): group 1 of the
\* leftmost match: from the first '>' after the first "<h1" to the first </h1>
\* after that; None without a match
SearchH1(text) ==
    LET low == LowerStr(text)
        a == Find(low, H1Open, 1)
        p == IF a = 0 THEN 0 ELSE FirstGt(low, a + Len(H1Open))
        b == IF p = 0 THEN 0 ELSE Find(low, H1Close, p + 1)
    IN IF b = 0 THEN None ELSE Slice(text, p + 1, b - 1)

\* the title lookup with the two searches in the other order: the heading first
get_html_title_heading_first(name, content) ==
    IF content.readable /\ Strip(StripMarkup(SearchH1(content.text))) # <<>>
    THEN Strip(StripMarkup(SearchH1(content.text)))
    ELSE IF content.readable /\ Strip(SearchTitle(content.text)) # <<>>
         THEN Strip(SearchTitle(content.text))
    ELSE Stem(name)

\* A file's content is its text and whether reading it succeeds (readable: the open
\* and the UTF-8 decoding raise nothing; any exception ends in the bare except).
get_html_title(name, content) ==
    LET title == Strip(SearchTitle(content.text))
        heading == Strip(StripMarkup(SearchH1(content.text)))
    IN IF content.readable /\ title # <<>> THEN title
       ELSE IF content.readable /\ heading # <<>> THEN heading
       ELSE Stem(name)

\* ---------------------------------------------------------------- registries
\* load_ignore_list: the stripped, non-empty, non-comment lines of .docsignore
load_ignore_list(file) ==
    IF file.exists
    THEN {Strip(file.lines[i]) : i \in {j \in 1..Len(file.lines) :
              Strip(file.lines[j]) # <<>> /\ Strip(file.lines[j])[1] # ChHash}}
    ELSE {}

\* a loader that swallows the decoding error
TagsNeverRaise(file) == FALSE

\* a loader that opens tags.json without asking whether it exists
TagsRaiseOnMissing(file) == ~file.exists \/ ~file.valid

\* json.load raises on a tags.json that is not valid JSON
TagsRaise(file) == file.exists /\ ~file.valid

\* load_tags: the parsed object, {} when tags.json is missing
load_tags(file) == IF file.exists THEN file.obj ELSE <<>>

\* tags_data.get(name, [])
TagsGet(tags, name) == IF name \in DOMAIN tags THEN tags[name] ELSE <<>>

\* ---------------------------------------------------------------- the scan directory
\* docs_path.glob("*.html"): the entries whose name ends in .html, in directory order
GlobHtml(d) == SelectSeq(d, LAMBDA e : EndsWith(e.name, HtmlExt))

NamesOf(d) == {d[i].name : i \in 1..Len(d)}

\* the collision handling with an `if` in place of the `while`: one candidate, taken
\* whether or not it exists
ProbeOnce(new_name, counter, names) ==
    Stem(new_name) \o <<ChDash>> \o Dec(counter) \o Suffix(new_name)

\* the collision loop of rename_japanese_files: stem-1, stem-2, ... until a free name
RECURSIVE Probe(_, _, _)
Probe(new_name, counter, names) ==
    LET cand == Stem(new_name) \o <<ChDash>> \o Dec(counter) \o Suffix(new_name)
    IN IF cand \notin names THEN cand ELSE Probe(new_name, counter + 1, names)

\* the rename without the collision loop
RenameTargetUnprobed(new_name, names) == new_name

\* the path html_file is renamed to: new_name itself when it does not exist
RenameTarget(new_name, names) ==
    IF new_name \notin names THEN new_name ELSE Probe(new_name, 1, names)

RemoveAt(s, i) == Slice(s, 1, i - 1) \o Slice(s, i + 1, Len(s))

InsertAt(s, p, e) == Slice(s, 1, p - 1) \o <<e>> \o Slice(s, p, Len(s))

\* os.rename within the directory: entry i gets the name `target` and the place p;
\* an entry that had that name is replaced
FsRename(d, i, target, p) ==
    LET moved == [d[i] EXCEPT !.name = target]
        rest == SelectSeq(RemoveAt(d, i), LAMBDA e : e.name # target)
    IN InsertAt(rest, IF p > Len(rest) + 1 THEN Len(rest) + 1 ELSE p, moved)

IndexOfName(d, name) == CHOOSE i \in 1..Len(d) : d[i].name = name

\* ---------------------------------------------------------------- extraction
\* the body of the collection loop of generate_index for one directory entry
MakeDoc(e, tags) ==
    [path |-> DOCS_DIR \o PathSep \o e.name,
     filename |-> e.name,
     title |-> get_html_title(e.name, e.content),
     date |-> IF get_date_from_filename(e.name) # None
              THEN get_date_from_filename(e.name) ELSE e.mtime,
     sort_key |-> get_sort_key_from_filename(e.name),
     tags |-> TagsGet(tags, e.name)]

\* the collection loop: every globbed entry not in the ignore list, in glob order
CollectDocs(d, ignore, tags) ==
    LET kept == SelectSeq(GlobHtml(d), LAMBDA e : e.name \notin ignore)
    IN [i \in 1..Len(kept) |-> MakeDoc(kept[i], tags)]

\* ---------------------------------------------------------------- sorting
\* Python's < on the key tuples (date-string, sequence)
KeyLess(a, b) == StrLess(a[1], b[1]) \/ (a[1] = b[1] /\ a[2] < b[2])

\* list.sort(key=..., reverse=True): descending and stable. x goes behind every
\* element whose key is not smaller than its own.
RECURSIVE InsertDesc(_, _)
InsertDesc(sorted, x) ==
    IF Len(sorted) = 0 THEN <<x>>
    ELSE IF KeyLess(sorted[1].sort_key, x.sort_key) THEN <<x>> \o sorted
    ELSE <<sorted[1]>> \o InsertDesc(Slice(sorted, 2, Len(sorted)), x)

\* the sort without reverse=True: ascending and stable
RECURSIVE InsertAsc(_, _)
InsertAsc(sorted, x) ==
    IF Len(sorted) = 0 THEN <<x>>
    ELSE IF KeyLess(x.sort_key, sorted[1].sort_key) THEN <<x>> \o sorted
    ELSE <<sorted[1]>> \o InsertAsc(Slice(sorted, 2, Len(sorted)), x)

RECURSIVE SortAsc(_)
SortAsc(docs) ==
    IF Len(docs) = 0 THEN <<>>
    ELSE InsertAsc(SortAsc(Slice(docs, 1, Len(docs) - 1)), docs[Len(docs)])

\* an ascending sort turned round: descending, with equal keys in reverse order
SortAscReversed(docs) ==
    LET a == SortAsc(docs) IN [i \in 1..Len(a) |-> a[Len(a) + 1 - i]]

RECURSIVE SortDesc(_)
SortDesc(docs) ==
    IF Len(docs) = 0 THEN <<>>
    ELSE InsertDesc(SortDesc(Slice(docs, 1, Len(docs) - 1)), docs[Len(docs)])

\* ---------------------------------------------------------------- rendering
\* one <li class="doc-item"> of the listing
RenderRow(doc) ==
    [sort_key |-> doc.sort_key[1] \o <<ChUnderscore>> \o Format02d(doc.sort_key[2]),
     filename |-> doc.filename,
     data_tags |-> <<>>,
     href |-> doc.path,
     title |-> doc.title,
     doc_tags |-> <<>>,
     date |-> StrftimeDate(doc.date),
     full_url |-> BASE_URL \o doc.path]

\* a rendering without the else branch: no placeholder row for an empty collection
RenderListingNoPlaceholder(docs, t) ==
    [exists |-> TRUE,
     rows |-> IF Len(docs) > 0 THEN [i \in 1..Len(docs) |-> RenderRow(docs[i])] ELSE <<>>,
     no_docs |-> 0,
     count |-> Len(docs),
     updated |-> StrftimeMinute(t)]

\* html_content: the document rows or the one placeholder row, the count, the stamp
RenderListing(docs, t) ==
    [exists |-> TRUE,
     rows |-> IF Len(docs) > 0 THEN [i \in 1..Len(docs) |-> RenderRow(docs[i])] ELSE <<>>,
     no_docs |-> IF Len(docs) > 0 THEN 0 ELSE 1,
     count |-> Len(docs),
     updated |-> StrftimeMinute(t)]

NoFile == [exists |-> FALSE]

\* ---------------------------------------------------------------- the page script
\* the page after loading index.html: the .doc-item rows in document order, each
\* item named by the number of its row in index.html; isDescending = true, no
\* click on the sort button yet
LoadPage(o) ==
    [items |-> [k \in 1..Len(o.rows) |-> k], isDescending |-> TRUE, toggles |-> 0]

\* the comparator of toggleSort is negative: the item with key a goes before the
\* item with key b
ItemBefore(a, b, desc) == IF desc THEN StrLess(b, a) ELSE StrLess(a, b)

\* Array.prototype.sort with that comparator on the items' data-sort-key: stable
RECURSIVE InsertItem(_, _, _, _)
InsertItem(sorted, x, rows, desc) ==
    IF Len(sorted) = 0 THEN <<x>>
    ELSE IF ItemBefore(rows[x].sort_key, rows[sorted[1]].sort_key, desc) THEN <<x>> \o sorted
    ELSE <<sorted[1]>> \o InsertItem(Slice(sorted, 2, Len(sorted)), x, rows, desc)

RECURSIVE SortItems(_, _, _)
SortItems(items, rows, desc) ==
    IF Len(items) = 0 THEN <<>>
    ELSE InsertItem(SortItems(Slice(items, 1, Len(items) - 1), rows, desc),
                    items[Len(items)], rows, desc)

\* toggleSort() on the page of a listing with these rows
toggleSort(p, rows) ==
    [items |-> SortItems(p.items, rows, ~p.isDescending),
     isDescending |-> ~p.isDescending,
     toggles |-> p.toggles + 1]

\* ================================================================ metacure_document_converter.py
\* ---------------------------------------------------------------- string operations
\* sub in s
Contains(s, sub) == Find(s, sub, 1) > 0

\* str.split(sep)
RECURSIVE SplitOn(_, _)
SplitOn(s, sep) ==
    LET i == Find(s, sep, 1)
    IN IF i = 0 THEN <<s>>
       ELSE <<Slice(s, 1, i - 1)>> \o SplitOn(Slice(s, i + Len(sep), Len(s)), sep)

\* sep.join(parts)
RECURSIVE JoinWith(_, _)
JoinWith(parts, sep) ==
    IF Len(parts) = 0 THEN <<>>
    ELSE IF Len(parts) = 1 THEN parts[1]
    ELSE parts[1] \o sep \o JoinWith(Tail(parts), sep)

\* str.replace(a, b)
RECURSIVE ReplaceAll(_, _, _)
ReplaceAll(s, a, b) ==
    LET i == Find(s, a, 1)
    IN IF i = 0 THEN s
       ELSE Slice(s, 1, i - 1) \o b \o ReplaceAll(Slice(s, i + Len(a), Len(s)), a, b)

\* str.find(sub, start) for a start that is the result of another find: Python's
\* -1 ("not found") as a start means the last character of s
FindFrom(s, sub, found) ==
    Find(s, sub, IF found > 0 THEN found ELSE IF Len(s) = 0 THEN 1 ELSE Len(s))

\* the first index >= i of s that holds no whitespace (Len(s) + 1 when none)
RECURSIVE SkipSpaces(_, _)
SkipSpaces(s, i) == IF i > Len(s) \/ ~IsSpace(s[i]) THEN i ELSE SkipSpaces(s, i + 1)

\* the first index >= i of s that holds no digit
RECURSIVE SkipDigits(_, _)
SkipDigits(s, i) == IF i > Len(s) \/ ~IsDigit(s[i]) THEN i ELSE SkipDigits(s, i + 1)

\* the first index >= i of s that holds no newline
RECURSIVE SkipNewlines(_, _)
SkipNewlines(s, i) == IF i > Len(s) \/ s[i] # 10 THEN i ELSE SkipNewlines(s, i + 1)

\* html.escape
EscapeChar(c) ==
    IF c = 38 THEN <<38,97,109,112,59>>              \* &amp;
    ELSE IF c = 60 THEN <<38,108,116,59>>            \* &lt;
    ELSE IF c = 62 THEN <<38,103,116,59>>            \* &gt;
    ELSE IF c = 34 THEN <<38,113,117,111,116,59>>    \* &quot;
    ELSE IF c = 39 THEN <<38,35,120,50,55,59>>       \* &#x27;
    ELSE <<c>>

RECURSIVE escape(_)
escape(s) == IF Len(s) = 0 THEN s ELSE EscapeChar(s[1]) \o escape(Tail(s))

\* ---------------------------------------------------------------- literals
Newline == <<10>>   \* \n
BlankLine == <<10,10>>   \* \n\n
Intro == <<12399,12376,12417,12395>>   \* はじめに
Rule == <<45,45,45>>   \* ---
H2Mark == <<35,35,32>>   \* ## 
H3Mark == <<35,35,35,32>>   \* ### 
AnnOpen == <<42,42,12304>>   \* **【
AnnClose == <<12305,42,42>>   \* 】**
DefaultAnnTitle == <<27880,37320>>   \* 注釈
DlgMid == <<42,42,65306,12300>>   \* **：「
DlgEnd == <<12301>>   \* 」
Star == <<42>>   \* *
Stars == <<42,42>>   \* **
StrongOpen == <<60,115,116,114,111,110,103,62>>   \* <strong>
StrongClose == <<60,47,115,116,114,111,110,103,62>>   \* </strong>
UlOpen == <<60,117,108,62>>   \* <ul>
UlClose == <<60,47,117,108,62>>   \* </ul>
Hr == <<60,104,114,62>>   \* <hr>
PClose == <<60,47,112,62>>   \* </p>
IntroId == <<105,100,61,34,105,110,116,114,111,100,117,99,116,105,111,110,34>>   \* id="introduction"
ChapterMark == <<31532>>   \* 第
ChapterColon == <<31456,58>>   \* 章:
TocHead == <<10,32,32,32,32,32,32,32,32,60,100,105,118,32,99,108,97,115,115,61,34,116,97,98,108,101,45,111,102,45,99,111,110,116,101,110,116,115,34,62,10,32,32,32,32,32,32,32,32,32,32,32,32,60,104,50,62,30446,27425,60,47,104,50,62,10,32,32,32,32,32,32,32,32,32,32,32,32,60,111,108,62,10,32,32,32,32>>   \* the opening of toc_html
TocFoot == <<10,32,32,32,32,32,32,32,32,32,32,32,32,60,47,111,108,62,10,32,32,32,32,32,32,32,32,60,47,100,105,118,62,10,32,32,32,32>>   \* the closing of toc_html
TocLinkOpen == <<60,108,105,62,60,97,32,104,114,101,102,61,34,35,99,104,97,112,116,101,114>>   \* <li><a href="#chapter
H2ChapterOpen == <<60,104,50,32,105,100,61,34,99,104,97,112,116,101,114>>   \* <h2 id="chapter

\* SPEAKER_MAP, in the order of the dict
SPEAKER_MAP ==
    << <<<<12479,12512,12521,12459,12452>>, <<116,97,109,107,97,105>>>>,
       <<<<12479,12512,12459,12452>>, <<116,97,109,107,97,105>>>>,
       <<<<23567,26519>>, <<116,97,109,107,97,105>>>>,
       <<<<40658,30000>>, <<116,97,109,107,97,105>>>>,
       <<<<22823,37324>>, <<111,115,97,116,111>>>>,
       <<<<22823,37324,80>>, <<111,115,97,116,111>>>>,
       <<<<79,112,105>>, <<111,112,105>>>> >>

\* CHAPTER_EMOJIS_MAP, in the order of the dict
CHAPTER_EMOJIS_MAP ==
    << <<<<29694,22580,12363,12425,12398,22793,38761>>, <<128165>>>>,
       <<<<12497,12540,12497,12473,12459,12540,12499,12531,12464>>, <<128105,8205,127806>>>>,
       <<<<12488,12483,12503,12434,21205,12363,12377>>, <<129692>>>>,
       <<<<22833,25943,12392,35226,24735>>, <<128737,65039>>>>,
       <<<<32068,32340,12434,36229,12360,12383,12388,12394,12364,12426>>, <<129309>>>>,
       <<<<12497,12540,12497,12473,28024,36879,12391,12399,12394,12367>>, <<128161>>>> >>

\* the value of the first pair of map m whose key occurs in s, else dflt
RECURSIVE FirstKeyIn(_, _, _)
FirstKeyIn(m, s, dflt) ==
    IF Len(m) = 0 THEN dflt
    ELSE IF Contains(s, m[1][1]) THEN m[1][2]
    ELSE FirstKeyIn(Tail(m), s, dflt)

get_speaker_class(speaker) == FirstKeyIn(SPEAKER_MAP, speaker, <<116,97,109,107,97,105>>)

get_chapter_emoji(title) == FirstKeyIn(CHAPTER_EMOJIS_MAP, title, <<>>)

\* ---------------------------------------------------------------- the patterns
\* re.sub(r'\n\s*\n', '\n\n', md_content): a newline, the whitespace after it up to
\* the last newline of that whitespace run
RECURSIVE LastNewlineInRun(_, _, _)
LastNewlineInRun(s, i, last) ==
    IF i > Len(s) \/ ~IsSpace(s[i]) THEN last
    ELSE LastNewlineInRun(s, i + 1, IF s[i] = 10 THEN i ELSE last)

RECURSIVE CollapseBlank(_)
CollapseBlank(s) ==
    IF Len(s) = 0 THEN s
    ELSE IF s[1] = 10 /\ LastNewlineInRun(s, 2, 0) > 0
         THEN BlankLine \o CollapseBlank(Slice(s, LastNewlineInRun(s, 2, 0) + 1, Len(s)))
         ELSE <<s[1]>> \o CollapseBlank(Tail(s))

\* re.match(r'^\*\*【.+?】\*\*', s)
MatchAnnTitle(s) == StartsWith(s, AnnOpen) /\ Find(s, AnnClose, Len(AnnOpen) + 2) > 0

\* re.search(r'\*\*【(.+?)】\*\*', text, re.DOTALL): group 1, None without a match
SearchAnnTitle(text) ==
    LET a == Find(text, AnnOpen, 1)
        b == IF a = 0 THEN 0 ELSE Find(text, AnnClose, a + Len(AnnOpen) + 1)
    IN IF b = 0 THEN None ELSE Slice(text, a + Len(AnnOpen), b - 1)

\* re.sub(r'\*\*【.+?】\*\*\n*', '', text, 1): the first **【...】** that stands on one
\* line is cut out, with the newlines after it
RECURSIVE CutAnnTitle(_, _)
CutAnnTitle(text, from) ==
    LET a == Find(text, AnnOpen, from)
        b == IF a = 0 THEN 0 ELSE Find(text, AnnClose, a + Len(AnnOpen) + 1)
    IN IF b = 0 THEN text
       ELSE IF Contains(Slice(text, a, b), Newline) THEN CutAnnTitle(text, a + 1)
       ELSE Slice(text, 1, a - 1)
            \o Slice(text, SkipNewlines(text, b + Len(AnnClose)), Len(text))

\* re.match(r'^>\s\*\*(.+?)\*\*：「(.+?)」', s): the indices of **：「 and of 」,
\* <<0, 0>> without a match
MatchDialogue(s) ==
    LET p == IF Len(s) >= 4 /\ s[1] = 62 /\ IsSpace(s[2]) /\ Slice(s, 3, 4) = Stars
             THEN Find(s, DlgMid, 6) ELSE 0
        q == IF p = 0 THEN 0 ELSE Find(s, DlgEnd, p + Len(DlgMid) + 1)
    IN IF q = 0 THEN <<0, 0>> ELSE <<p, q>>

\* re.sub(d(.+?)d, r'<strong>\1</strong>', s) for the delimiter d, ** or *
RECURSIVE SubStrong(_, _)
SubStrong(s, d) ==
    LET a == Find(s, d, 1)
        b == IF a = 0 THEN 0 ELSE Find(s, d, a + Len(d) + 1)
    IN IF b = 0 THEN s
       ELSE Slice(s, 1, a - 1) \o StrongOpen \o Slice(s, a + Len(d), b - 1) \o StrongClose
            \o SubStrong(Slice(s, b + Len(d), Len(s)), d)

\* re.sub(r'</ul>\s*<ul>', '', s)
RECURSIVE RemoveUlJoins(_)
RemoveUlJoins(s) ==
    LET a == Find(s, UlClose, 1)
        e == SkipSpaces(s, a + Len(UlClose))
    IN IF a = 0 THEN s
       ELSE IF StartsWith(Slice(s, e, Len(s)), UlOpen)
            THEN Slice(s, 1, a - 1) \o RemoveUlJoins(Slice(s, e + Len(UlOpen), Len(s)))
            ELSE Slice(s, 1, a + Len(UlClose) - 1)
                 \o RemoveUlJoins(Slice(s, a + Len(UlClose), Len(s)))

\* re.sub(r'第\d+章:\s*', '', title)
RECURSIVE StripChapterPrefix(_)
StripChapterPrefix(s) ==
    IF Len(s) = 0 THEN s
    ELSE IF StartsWith(s, ChapterMark) /\ SkipDigits(s, 2) > 2
            /\ StartsWith(Slice(s, SkipDigits(s, 2), Len(s)), ChapterColon)
         THEN StripChapterPrefix(
                  Slice(s, SkipSpaces(s, SkipDigits(s, 2) + Len(ChapterColon)), Len(s)))
         ELSE <<s[1]>> \o StripChapterPrefix(Tail(s))

\* ---------------------------------------------------------------- the emitted blocks
\* the annotation block of lines 219-226
AnnotationBlock(annotation_content) ==
    LET content_text == JoinWith(annotation_content, Newline)
        title == IF SearchAnnTitle(content_text) # None
                 THEN Strip(SearchAnnTitle(content_text)) ELSE DefaultAnnTitle
        content_body == Strip(CutAnnTitle(content_text, 1))
        ps == SelectSeq(SplitOn(content_body, BlankLine), LAMBDA p : Strip(p) # <<>>)
        content_paragraphs ==
            JoinWith([k \in 1..Len(ps) |-> <<60,112,62>> \o escape(Strip(ps[k])) \o PClose], <<>>)
    IN <<60,100,105,118,32,99,108,97,115,115,61,34,97,110,110,111,116,97,116,105,111,110,34,62,10,32,32,32,32,60,100,105,118,32,99,108,97,115,115,61,34,97,110,110,111,116,97,116,105,111,110,45,116,105,116,108,101,34,62>>
       \o escape(title)
       \o <<60,47,100,105,118,62,10,32,32,32,32,60,100,105,118,32,99,108,97,115,115,61,34,97,110,110,111,116,97,116,105,111,110,45,99,111,110,116,101,110,116,34,62,10,32,32,32,32,32,32,32,32>>
       \o content_paragraphs
       \o <<10,32,32,32,32,60,47,100,105,118,62,10,60,47,100,105,118,62>>

\* title.replace(' ', '-').replace('：', '').replace('—', '').replace('——', '')
Anchor(title) ==
    ReplaceAll(ReplaceAll(ReplaceAll(ReplaceAll(title, <<32>>, <<45>>), <<65306>>, <<>>),
                          <<8212>>, <<>>), <<8212,8212>>, <<>>)

IntroHeading(title) == <<60,104,50,32,105,100,61,34,105,110,116,114,111,100,117,99,116,105,111,110,34,62>> \o escape(title) \o <<60,47,104,50,62>>

ChapterHeading(n, title) ==
    H2ChapterOpen \o Dec(n) \o <<34,62>> \o ChapterMark \o Dec(n) \o ChapterColon
    \o escape(title) \o <<60,47,104,50,62>>

ChapterImage(emoji) == <<60,100,105,118,32,99,108,97,115,115,61,34,99,104,97,112,116,101,114,45,105,109,97,103,101,34,62>> \o emoji \o <<60,47,100,105,118,62>>

SubHeading(title) == <<60,104,51,62>> \o escape(title) \o <<60,47,104,51,62>>

\* the dialogue block of lines 274-279
DialogueBlock(speaker, text) ==
    <<60,100,105,118,32,99,108,97,115,115,61,34,100,105,97,108,111,103,117,101,32>> \o get_speaker_class(speaker)
    \o <<34,62,10,32,32,32,32,60,100,105,118,32,99,108,97,115,115,61,34,100,105,97,108,111,103,117,101,45,115,112,101,97,107,101,114,34,62>> \o escape(speaker)
    \o <<60,47,100,105,118,62,10,32,32,32,32,60,112,32,99,108,97,115,115,61,34,100,105,97,108,111,103,117,101,45,116,101,120,116,34,62,12300>> \o escape(text)
    \o <<12301,60,47,112,62,10,60,47,100,105,118,62>>

\* the paragraph or list item of lines 284-293
ParagraphBlock(stripped_line) ==
    LET text == SubStrong(SubStrong(stripped_line, Stars), Star)
    IN IF Len(text) >= 2 /\ text[1] \in {42, 45} /\ IsSpace(text[2])
       THEN UlOpen \o <<60,108,105,62>> \o Strip(Slice(text, 3, Len(text))) \o <<60,47,108,105,62>> \o UlClose
       ELSE <<60,112,62>> \o text \o PClose

\* toc_html of lines 301-312
TocHtml(toc_entries) ==
    TocHead
    \o JoinWith([k \in 1..Len(toc_entries) |->
           TocLinkOpen \o Dec(toc_entries[k].count) \o <<34,62>>
           \o escape(StripChapterPrefix(toc_entries[k].title)) \o <<60,47,97,62,60,47,108,105,62,10>>], <<>>)
    \o TocFoot

\* lines 315-325: the table of contents goes behind the first </p> after
\* id="introduction", in front of the first <hr> that follows if there is one
InsertToc(content_html, toc_html) ==
    LET intro_end_index == FindFrom(content_html, PClose, Find(content_html, IntroId, 1))
        hr_index == IF intro_end_index = 0 THEN 0 ELSE Find(content_html, Hr, intro_end_index)
    IN IF intro_end_index # 0
       THEN IF hr_index # 0
            THEN Slice(content_html, 1, hr_index - 1) \o Hr \o Newline \o toc_html
                 \o Slice(content_html, hr_index, Len(content_html))
            ELSE Slice(content_html, 1, intro_end_index + Len(PClose) - 1)
                 \o BlankLine \o Hr \o Newline \o toc_html
                 \o Slice(content_html, intro_end_index + Len(PClose), Len(content_html))
       ELSE content_html

\* ---------------------------------------------------------------- one line of the loop
\* the body of the for loop of lines 202-293 for lines[i], on the loop's variables
ConvertLine(m) ==
    LET line == m.lines[m.i]
        stripped_line == Strip(line)
        title2 == Strip(Slice(stripped_line, Len(H2Mark) + 1, Len(stripped_line)))
        title3 == Strip(Slice(stripped_line, Len(H3Mark) + 1, Len(stripped_line)))
        dlg == MatchDialogue(stripped_line)
        next == [m EXCEPT !.i = m.i + 1]
    IN IF stripped_line = Rule /\ m.in_annotation
       THEN [next EXCEPT !.html_lines = Append(m.html_lines, AnnotationBlock(m.annotation_content)),
                         !.in_annotation = FALSE,
                         !.annotation_content = <<>>]
       ELSE IF stripped_line = Rule /\ m.i + 1 <= Len(m.lines)
               /\ MatchAnnTitle(Strip(m.lines[m.i + 1]))
       THEN [next EXCEPT !.in_annotation = TRUE]
       ELSE IF stripped_line = Rule
       THEN [next EXCEPT !.html_lines = Append(m.html_lines, Hr)]
       ELSE IF m.in_annotation
       THEN [next EXCEPT !.annotation_content = Append(m.annotation_content, line)]
       ELSE IF StartsWith(stripped_line, H2Mark)
       THEN IF Contains(title2, Intro) /\ m.chapter_count = 0
            THEN [next EXCEPT !.html_lines = Append(m.html_lines, IntroHeading(title2))]
            ELSE [next EXCEPT
                    !.chapter_count = m.chapter_count + 1,
                    !.toc_entries = Append(m.toc_entries,
                        [count |-> m.chapter_count + 1, title |-> title2, anchor |-> Anchor(title2)]),
                    !.html_lines =
                        m.html_lines \o <<ChapterHeading(m.chapter_count + 1, title2)>>
                        \o (IF get_chapter_emoji(title2) # <<>>
                            THEN <<ChapterImage(get_chapter_emoji(title2))>> ELSE <<>>)]
       ELSE IF StartsWith(stripped_line, H3Mark)
       THEN [next EXCEPT !.html_lines = Append(m.html_lines, SubHeading(title3))]
       ELSE IF dlg # <<0, 0>>
       THEN [next EXCEPT !.html_lines = Append(m.html_lines,
                DialogueBlock(Strip(Slice(stripped_line, 5, dlg[1] - 1)),
                              Strip(Slice(stripped_line, dlg[1] + Len(DlgMid), dlg[2] - 1))))]
       ELSE IF stripped_line # <<>> /\ stripped_line[1] # ChHash /\ stripped_line[1] # 62
       THEN [next EXCEPT !.html_lines = Append(m.html_lines, ParagraphBlock(stripped_line))]
       ELSE next

\* ---------------------------------------------------------------- markdown inputs
MdLines ==
    { <<35,35,32,12399,12376,12417,12395>>,   \* ## はじめに
      <<35,35,32,65>>,   \* ## A
      <<32,35,35,32,31532,50,31456,58,32,22833,25943,12392,35226,24735,32>>,   \* a padded heading "## 第2章: 失敗と覚悟"
      <<26412,42,25991,42>>,   \* a paragraph with emphasis
      Rule,
      <<42,42,12304,27880,12305,42,42>>,   \* an annotation title
      <<>>,   \* an empty line
      <<45,32,120>>,   \* a list item
      <<35,35,35,32,115>>,   \* a sub-heading
      <<62,32,42,42,22823,37324,42,42,65306,12300,116,12301>> }   \* a dialogue line

\* the markdown texts of at most max of these lines
MdInputs(max) ==
    UNION {{JoinWith(ls, Newline) : ls \in [1..n -> MdLines]} : n \in 0..max}

\* the converter before the call, or not called at all
MdIdle(src, at) ==
    [pc |-> at, md_content |-> src, lines |-> <<>>, i |-> 1, html_lines |-> <<>>,
     toc_entries |-> <<>>, chapter_count |-> 0, in_annotation |-> FALSE,
     annotation_content |-> <<>>, content_html |-> <<>>, final_content_html |-> <<>>]

\* ---------------------------------------------------------------- inputs
\* file contents
WithTitle == [readable |-> TRUE, text |-> <<60,116,105,116,108,101,62,32,84,32,60,47,116,105,116,108,101,62,60,104,49,62,72,60,47,104,49,62>>]   \* <title> T </title><h1>H</h1>
OnlyH1 == [readable |-> TRUE, text |-> <<60,116,105,116,108,101,62,32,60,47,116,105,116,108,101,62,60,104,49,62,60,98,62,72,60,47,98,62,60,47,104,49,62>>]   \* <title> </title><h1><b>H</b></h1>
Bare == [readable |-> TRUE, text |-> <<60,112,62,120,60,47,112,62>>]   \* <p>x</p>
Unreadable == [readable |-> FALSE, text |-> <<60,116,105,116,108,101,62,84,60,47,116,105,116,108,101,62>>]   \* <title>T</title> in bytes that are not UTF-8, or without read permission

D20251201 == <<50,48,50,53,49,50,48,49>>  \* "20251201"
D20251128 == <<50,48,50,53,49,49,50,56>>  \* "20251128"
D20259999 == <<50,48,50,53,57,57,57,57>>  \* "20259999"
D20250229 == <<50,48,50,53,48,50,50,57>>  \* "20250229"
D20240229 == <<50,48,50,52,48,50,50,57>>  \* "20240229"
D2025120 == <<50,48,50,53,49,50,48>>      \* "2025120", seven digits
StampZero == <<100,111,99,45,50,48,50,53,49,50,48,49,45,48,48,48,48,48,48>>  \* "doc-20251201-000000"

\* the files a scan directory of the main specification is drawn from:
\* the entry's identity (ino), its name, its last-modified date, its content
FileTable ==
    << [ino |-> 1, name |-> D20251128 \o <<95,48,50>> \o HtmlExt, mtime |-> <<2025,12,2>>, content |-> OnlyH1],
       [ino |-> 2, name |-> D20251128 \o HtmlExt, mtime |-> <<2025,11,30>>, content |-> Bare],
       [ino |-> 3, name |-> D20251201 \o HtmlExt, mtime |-> <<2025,12,2>>, content |-> WithTitle],
       [ino |-> 4, name |-> <<114>> \o HtmlExt, mtime |-> <<2025,11,30>>, content |-> Unreadable],
       [ino |-> 5, name |-> <<26085>> \o HtmlExt, mtime |-> <<2025,12,2>>, content |-> WithTitle],
       [ino |-> 6, name |-> <<26085,26412>> \o HtmlExt, mtime |-> <<2025,11,30>>, content |-> OnlyH1],
       [ino |-> 7, name |-> StampZero \o HtmlExt, mtime |-> <<2025,11,30>>, content |-> Bare],
       [ino |-> 8, name |-> StampZero \o <<45,49>> \o HtmlExt, mtime |-> <<2025,11,30>>, content |-> WithTitle],
       [ino |-> 9, name |-> <<110,46,116,120,116>>, mtime |-> <<2025,12,2>>, content |-> Bare] >>

\* the subsets of S with at most n elements
SubsetsUpTo(S, n) == {T \in SUBSET S : Cardinality(T) <= n}

\* the table's files with an ino in T, in table order
Pick(T) == SelectSeq(FileTable, LAMBDA f : f.ino \in T)

Reverse(s) == [i \in 1..Len(s) |-> s[Len(s) + 1 - i]]

\* the scan directories at the start: at most MaxFiles files of the table, enumerated
\* by the filesystem in table order or in the opposite order
Directories ==
    {Pick(T) : T \in SubsetsUpTo(1..Len(FileTable), MaxFiles)}
    \cup {Reverse(Pick(T)) : T \in SubsetsUpTo(1..Len(FileTable), MaxFiles)}

\* .docsignore: missing, or a comment, a blank line, a padded ASCII name and a
\* non-ASCII name
IgnoreFiles ==
    { [exists |-> FALSE, lines |-> <<>>],
      [exists |-> TRUE, lines |-> << <<35,32,114,46,104,116,109,108,10>>, <<32,10>>,
                                     <<32>> \o D20251128 \o HtmlExt \o <<32,10>>,
                                     <<26085>> \o HtmlExt \o <<10>> >>] }

\* tags.json: missing; not JSON; an object
TagsObject ==
    (D20251201 \o HtmlExt :> << <<97>>, <<98>> >>)
    @@ (D20251128 \o HtmlExt :> << <<98>> >>)
    @@ (<<26085>> \o HtmlExt :> << <<97>> >>)
    @@ (StampZero \o HtmlExt :> << <<99>> >>)

TagsFiles ==
    { [exists |-> FALSE, valid |-> FALSE, obj |-> <<>>],
      [exists |-> TRUE, valid |-> FALSE, obj |-> <<>>],
      [exists |-> TRUE, valid |-> TRUE, obj |-> TagsObject] }

\* an index.html left by an earlier invocation
StaleOut == [exists |-> TRUE, rows |-> <<>>, no_docs |-> 1, count |-> 0,
             updated |-> <<50,48,50,53>>]

\* ---------------------------------------------------------------- state
VARIABLES
    pc,           \* position of the run: start, load_tags, rename, scan, sort, render, write, done, error
    run,          \* number of the current invocation
    now,          \* the clock, in seconds
    docs_exists,  \* the directory docs/ exists
    dir,          \* the entries of docs/, in the order the filesystem enumerates them
    ignoreFile,   \* .docsignore
    tagsFile,     \* tags.json
    out,          \* index.html
    ignore_list,  \* generate_index: ignore_list
    tags_data,    \* generate_index: tags_data
    todo,         \* rename_japanese_files: the names of list(glob) still to visit
    renamed,      \* rename_japanese_files: the (old name, new name) pairs
    html_files,   \* generate_index: html_files
    html_content, \* generate_index: html_content
    dir0,         \* docs/ as it was when the current run started
    out0,         \* index.html as it was when the current run started
    prev,         \* the run before: it returned (ok), the docs/ it started on, the index.html it left
    page,         \* index.html as a browser shows it: the order of the .doc-item rows, isDescending
    md            \* markdown_to_html_custom: its position and its local variables

vars == <<pc, run, now, docs_exists, dir, ignoreFile, tagsFile, out, ignore_list,
          tags_data, todo, renamed, html_files, html_content, dir0, out0, prev, page, md>>

env == <<docs_exists, ignoreFile, tagsFile>>

Locals0 ==
    /\ ignore_list = {}
    /\ tags_data = <<>>
    /\ todo = <<>>
    /\ renamed = <<>>
    /\ html_files = <<>>
    /\ html_content = NoFile

InitWith(d) ==
    /\ pc = "start"
    /\ run = 1
    /\ now = 0
    /\ dir = d
    /\ docs_exists \in (IF d = <<>> THEN BOOLEAN ELSE {TRUE})
    /\ dir0 = dir
    /\ ignoreFile \in IgnoreFiles
    /\ tagsFile \in TagsFiles
    /\ out = StaleOut
    /\ out0 = out
    /\ prev = [ok |-> FALSE, dir |-> <<>>, out |-> NoFile]
    /\ page = LoadPage(out)
    /\ md = MdIdle(<<>>, "idle")
    /\ Locals0

Init == \E d \in Directories : InitWith(d)

\* The filename grammar: a date part, a sequence part and a tail, then .html.
NameDates == {<<>>, D2025120, D20251201, D20251128, D20259999, D20250229, D20240229}

NameSeqs == {<<>>, <<95>>, <<95,51>>, <<95,48,51>>, <<95,49,50,51>>}   \* "", "_", "_3", "_03", "_123"

NameTails == {<<>>, <<95,114,101,112,111,114,116>>, <<114>>, <<26085>>}  \* "", "_report", "r", a non-ASCII character

GrammarNames ==
    {n \in {d \o q \o t \o HtmlExt : d \in NameDates, q \in NameSeqs, t \in NameTails} :
        Len(n) > Len(HtmlExt)}

\* a scan directory holding one file, of any name of the grammar
InitNames ==
    \E n \in GrammarNames :
        \E c \in {WithTitle, Unreadable} :
            InitWith(<<[ino |-> 1, name |-> n, mtime |-> <<2025,11,30>>, content |-> c]>>)

\* files with equal sort keys: three of key ("20251201", 0), three without a date
\* prefix, one of them to be renamed
TieTable ==
    << [ino |-> 1, name |-> D20251201 \o HtmlExt, mtime |-> <<2025,12,2>>, content |-> WithTitle],
       [ino |-> 2, name |-> D20251201 \o <<95,48,48>> \o HtmlExt, mtime |-> <<2025,12,2>>, content |-> Bare],
       [ino |-> 3, name |-> D20251201 \o <<95,48,95,120>> \o HtmlExt, mtime |-> <<2025,12,2>>, content |-> Bare],
       [ino |-> 4, name |-> <<114>> \o HtmlExt, mtime |-> <<2025,11,30>>, content |-> Bare],
       [ino |-> 5, name |-> <<115>> \o HtmlExt, mtime |-> <<2025,11,30>>, content |-> WithTitle],
       [ino |-> 6, name |-> <<26085>> \o HtmlExt, mtime |-> <<2025,11,30>>, content |-> Bare] >>

\* a scan directory of at most MaxFiles of these files, enumerated in any order
InitTies ==
    \E n \in 0..MaxFiles :
        \E f \in {g \in [1..n -> 1..Len(TieTable)] : \A i, j \in 1..n : i # j => g[i] # g[j]} :
            InitWith([i \in 1..n |-> TieTable[f[i]]])

\* names with sequence numbers of one, two and three digits, and a name to rename
SeqNames ==
    { D20251201 \o <<95,49>> \o HtmlExt,          \* 20251201_1.html
      D20251201 \o <<95,48,50>> \o HtmlExt,       \* 20251201_02.html
      D20251201 \o <<95,57>> \o HtmlExt,          \* 20251201_9.html
      D20251201 \o <<95,49,48>> \o HtmlExt,       \* 20251201_10.html
      D20251201 \o <<95,57,57>> \o HtmlExt,       \* 20251201_99.html
      D20251201 \o <<95,49,48,48>> \o HtmlExt,    \* 20251201_100.html
      D20251128 \o <<95,49,48,48>> \o HtmlExt,    \* 20251128_100.html
      D20251201 \o HtmlExt,                       \* 20251201.html
      <<26085>> \o HtmlExt }

\* a scan directory of at most MaxPair files of these names, enumerated in any order
InitSeqs ==
    \E n \in 0..MaxPair :
        \E f \in {g \in [1..n -> SeqNames] : \A i, j \in 1..n : i # j => g[i] # g[j]} :
            InitWith([i \in 1..n |->
                [ino |-> i, name |-> f[i], mtime |-> <<2025,11,30>>, content |-> WithTitle]])

\* The markup get_html_title looks for: a text holds one of the <title> parts and
\* one of the <h1> parts, in either order. `inner` is what a reader takes the
\* first such element to contain, stripped (and, for a heading, without markup).
TitleParts ==
    { [text |-> <<>>, inner |-> <<>>],   \* no element : empty
      [text |-> <<60,116,105,116,108,101,62,84,60,47,116,105,116,108,101,62>>, inner |-> <<84>>],   \* <title>T</title> : T
      [text |-> <<60,84,73,84,76,69,62,32,84,50,32,60,47,84,73,84,76,69,62>>, inner |-> <<84,50>>],   \* <TITLE> T2 </TITLE> : T2
      [text |-> <<60,116,105,116,108,101,62,32,60,47,116,105,116,108,101,62>>, inner |-> <<>>],   \* <title> </title> : empty
      [text |-> <<60,116,105,116,108,101,62,60,47,116,105,116,108,101,62,60,116,105,116,108,101,62,85,60,47,116,105,116,108,101,62>>, inner |-> <<>>],   \* <title></title><title>U</title> : empty
      [text |-> <<60,116,105,116,108,101,62,10,84,51,10,60,47,116,105,116,108,101,62>>, inner |-> <<84,51>>],   \* <title>\nT3\n</title> : T3
      [text |-> <<60,116,105,116,108,101,62,60,105,62,84,60,47,105,62,60,47,116,105,116,108,101,62>>, inner |-> <<60,105,62,84,60,47,105,62>>] }   \* <title><i>T</i></title> : <i>T</i>

H1Parts ==
    { [text |-> <<>>, inner |-> <<>>],   \* no element : empty
      [text |-> <<60,104,49,62,72,60,47,104,49,62>>, inner |-> <<72>>],   \* <h1>H</h1> : H
      [text |-> <<60,72,49,32,99,108,97,115,115,61,120,62,32,60,98,62,72,50,60,47,98,62,32,60,47,72,49,62>>, inner |-> <<72,50>>],   \* <H1 class=x> <b>H2</b> </H1> : H2
      [text |-> <<60,104,49,62,32,60,47,104,49,62>>, inner |-> <<>>],   \* <h1> </h1> : empty
      [text |-> <<60,104,49,62,60,98,114,62,60,47,104,49,62,60,104,49,62,75,60,47,104,49,62>>, inner |-> <<>>],   \* <h1><br></h1><h1>K</h1> : empty
      [text |-> <<60,104,49,62,65,60,98,62,66,60,47,98,62,60,47,104,49,62>>, inner |-> <<65,66>>] }   \* <h1>A<b>B</b></h1> : AB

MarkupTexts ==
    {p.text \o h.text : p \in TitleParts, h \in H1Parts}
    \cup {h.text \o p.text : p \in TitleParts, h \in H1Parts}

\* a scan directory holding one file, ASCII-named or not, of any such text
InitTitles ==
    \E n \in {<<114>> \o HtmlExt, <<26085>> \o HtmlExt} :
        \E c \in {[readable |-> TRUE, text |-> t] : t \in MarkupTexts} \cup {Unreadable} :
            InitWith(<<[ino |-> 1, name |-> n, mtime |-> <<2025,11,30>>, content |-> c]>>)

\* ---------------------------------------------------------------- generate_index
\* ignore_list = load_ignore_list()
LoadIgnore ==
    /\ pc = "start"
    /\ ignore_list' = load_ignore_list(ignoreFile)
    /\ pc' = "load_tags"
    /\ UNCHANGED <<run, now, env, dir, out, tags_data, todo, renamed, html_files,
                   html_content, dir0, out0, prev, page, md>>

\* generate_index without the call of rename_japanese_files
LoadTagsNoRenamePass ==
    /\ pc = "load_tags"
    /\ IF TagsRaise(tagsFile)
       THEN /\ pc' = "error"
            /\ UNCHANGED tags_data
       ELSE /\ tags_data' = load_tags(tagsFile)
            /\ pc' = "scan"
    /\ UNCHANGED <<run, now, env, dir, out, ignore_list, todo, renamed, html_files,
                   html_content, dir0, out0, prev, page, md>>

\* tags_data = load_tags(); then, if docs/ exists, rename_japanese_files takes
\* its snapshot list(docs_path.glob("*.html"))
LoadTags ==
    /\ pc = "load_tags"
    /\ IF TagsRaise(tagsFile)
       THEN /\ pc' = "error"
            /\ UNCHANGED <<tags_data, todo>>
       ELSE /\ tags_data' = load_tags(tagsFile)
            /\ todo' = IF docs_exists
                       THEN [i \in 1..Len(GlobHtml(dir)) |-> GlobHtml(dir)[i].name]
                       ELSE <<>>
            /\ pc' = IF todo' # <<>> THEN "rename" ELSE "scan"
    /\ UNCHANGED <<run, now, env, dir, out, ignore_list, renamed, html_files,
                   html_content, dir0, out0, prev, page, md>>

\* one iteration of the loop of rename_japanese_files. The renamed entry keeps its
\* place in the directory order or becomes the last entry.
RenameStep ==
    /\ pc = "rename"
    /\ todo # <<>>
    /\ LET name == Head(todo)
           new_name == sanitize_filename(name, now)
           target == RenameTarget(new_name, NamesOf(dir))
           i == IndexOfName(dir, name)
       IN IF new_name # None
          THEN /\ \E p \in {i, Len(dir)} : dir' = FsRename(dir, i, target, p)
               /\ renamed' = Append(renamed, <<name, target>>)
          ELSE UNCHANGED <<dir, renamed>>
    /\ todo' = Tail(todo)
    /\ pc' = IF todo' # <<>> THEN "rename" ELSE "scan"
    /\ UNCHANGED <<run, now, env, out, ignore_list, tags_data, html_files,
                   html_content, dir0, out0, prev, page, md>>

\* the collection loop with a get_html_title that has no try/except: the first
\* file that cannot be read ends the run
CollectAborting ==
    /\ pc = "scan"
    /\ IF docs_exists /\ \E i \in 1..Len(dir) :
              /\ EndsWith(dir[i].name, HtmlExt)
              /\ dir[i].name \notin ignore_list
              /\ ~dir[i].content.readable
       THEN /\ pc' = "error"
            /\ UNCHANGED html_files
       ELSE /\ html_files' = IF docs_exists THEN CollectDocs(dir, ignore_list, tags_data) ELSE <<>>
            /\ pc' = "sort"
    /\ UNCHANGED <<run, now, env, dir, out, ignore_list, tags_data, todo, renamed,
                   html_content, dir0, out0, prev, page, md>>

\* the collection loop over docs_path.glob("*.html")
Collect ==
    /\ pc = "scan"
    /\ html_files' = IF docs_exists THEN CollectDocs(dir, ignore_list, tags_data) ELSE <<>>
    /\ pc' = "sort"
    /\ UNCHANGED <<run, now, env, dir, out, ignore_list, tags_data, todo, renamed,
                   html_content, dir0, out0, prev, page, md>>

\* html_files.sort(key=..., reverse=True)
Sort ==
    /\ pc = "sort"
    /\ html_files' = SortDesc(html_files)
    /\ pc' = "render"
    /\ UNCHANGED <<run, now, env, dir, out, ignore_list, tags_data, todo, renamed,
                   html_content, dir0, out0, prev, page, md>>

\* docs_html and html_content are built
Render ==
    /\ pc = "render"
    /\ html_content' = RenderListing(html_files, now)
    /\ pc' = "write"
    /\ UNCHANGED <<run, now, env, dir, out, ignore_list, tags_data, todo, renamed,
                   html_files, dir0, out0, prev, page, md>>

\* the write with mode 'a': the new rows land behind the ones already in index.html
WriteAppending ==
    /\ pc = "write"
    /\ out' = [html_content EXCEPT !.rows = out.rows \o html_content.rows]
    /\ pc' = "done"
    /\ page' = LoadPage(out')
    /\ UNCHANGED <<run, now, env, dir, ignore_list, tags_data, todo, renamed,
                   html_files, html_content, dir0, out0, prev, md>>

\* with open(OUTPUT_FILE, 'w') ...: f.write(html_content)
Write ==
    /\ pc = "write"
    /\ out' = html_content
    /\ pc' = "done"
    /\ page' = LoadPage(out')
    /\ UNCHANGED <<run, now, env, dir, ignore_list, tags_data, todo, renamed,
                   html_files, html_content, dir0, out0, prev, md>>

\* the operator invokes the script again, after it returned or raised, a minute later
Restart ==
    /\ pc \in {"done", "error"}
    /\ run < MaxRuns
    /\ run' = run + 1
    /\ pc' = "start"
    /\ now' = now - (now % 60) + 60
    /\ dir0' = dir
    /\ out0' = out
    /\ prev' = [ok |-> pc = "done", dir |-> dir0, out |-> out]
    /\ ignore_list' = {}
    /\ tags_data' = <<>>
    /\ todo' = <<>>
    /\ renamed' = <<>>
    /\ html_files' = <<>>
    /\ html_content' = NoFile
    /\ page' = LoadPage(out)
    /\ UNCHANGED <<env, dir, out, md>>

\* a second passes during the sanitizer pass. The pass reads the clock only when it
\* visits a name that needs renaming, so only the seconds before such a visit are
\* modelled; MaxTick bounds the seconds a run takes.
Tick ==
    /\ pc = "rename"
    /\ todo # <<>>
    /\ ~IsAscii(Stem(Head(todo)))
    /\ now % 60 < MaxTick
    /\ now' = now + 1
    /\ UNCHANGED <<pc, run, env, dir, out, ignore_list, tags_data, todo, renamed,
                   html_files, html_content, dir0, out0, prev, page, md>>

\* a click on the sort button of the page of the written listing
Toggle ==
    /\ pc = "done"
    /\ page.toggles < MaxToggles
    /\ page' = toggleSort(page, out.rows)
    /\ UNCHANGED <<pc, run, now, env, dir, out, ignore_list, tags_data, todo, renamed,
                   html_files, html_content, dir0, out0, prev, md>>

Next ==
    \/ LoadIgnore
    \/ LoadTags
    \/ RenameStep
    \/ Collect
    \/ Sort
    \/ Render
    \/ Write
    \/ Restart
    \/ Tick

Spec == Init /\ [][Next]_vars

SpecNames == InitNames /\ [][Next]_vars

SpecTitles == InitTitles /\ [][Next]_vars

SpecTies == InitTies /\ [][Next]_vars

\* the runs of generate_index and the clicks of a reader of the written page
NextPage ==
    \/ Next
    \/ Toggle

SpecSeqs == InitSeqs /\ [][NextPage]_vars

\* ---------------------------------------------------------------- markdown_to_html_custom
\* the variables of generate-index.py, which the converter does not touch
index_vars == <<pc, run, now, docs_exists, dir, ignoreFile, tagsFile, out, ignore_list,
                tags_data, todo, renamed, html_files, html_content, dir0, out0, prev, page>>

\* the converter is called on one of the markdown texts; generate-index.py is not run
InitMd ==
    /\ md \in {MdIdle(src, "start") : src \in MdInputs(MaxLines)}
    /\ pc = "start"
    /\ run = 1
    /\ now = 0
    /\ dir = <<>>
    /\ docs_exists = FALSE
    /\ dir0 = dir
    /\ ignoreFile = [exists |-> FALSE, lines |-> <<>>]
    /\ tagsFile = [exists |-> FALSE, valid |-> FALSE, obj |-> <<>>]
    /\ out = NoFile
    /\ out0 = out
    /\ prev = [ok |-> FALSE, dir |-> <<>>, out |-> NoFile]
    /\ page = [items |-> <<>>, isDescending |-> TRUE, toggles |-> 0]
    /\ Locals0

\* lines 191-200: blank lines are collapsed, the text is split into lines
MdSplit ==
    /\ md.pc = "start"
    /\ md' = [md EXCEPT !.pc = "loop",
                        !.lines = SplitOn(CollapseBlank(md.md_content), Newline),
                        !.i = 1]
    /\ UNCHANGED index_vars

\* one iteration of the for loop of lines 202-293
MdLine ==
    /\ md.pc = "loop"
    /\ md.i <= Len(md.lines)
    /\ md' = ConvertLine(md)
    /\ UNCHANGED index_vars

\* lines 296-297: the blocks are joined, adjacent lists are merged
MdJoin ==
    /\ md.pc = "loop"
    /\ md.i > Len(md.lines)
    /\ md' = [md EXCEPT !.pc = "toc",
                        !.content_html = RemoveUlJoins(JoinWith(md.html_lines, Newline))]
    /\ UNCHANGED index_vars

\* lines 301-325: the table of contents is built and inserted
MdToc ==
    /\ md.pc = "toc"
    /\ md' = [md EXCEPT !.pc = "done",
                        !.final_content_html = InsertToc(md.content_html, TocHtml(md.toc_entries))]
    /\ UNCHANGED index_vars

NextMd ==
    \/ MdSplit
    \/ MdLine
    \/ MdJoin
    \/ MdToc

SpecMd == InitMd /\ [][NextMd]_vars

\* ================================================================ properties
AfterPass == {"scan", "sort", "render", "write", "done"}

NonAsciiHtml(name) == EndsWith(name, HtmlExt) /\ ~IsAscii(Stem(name))

RowNames(o) == [k \in 1..Len(o.rows) |-> o.rows[k].filename]

\* the tags.json the run started on is not valid JSON
BadTags == tagsFile.exists /\ ~tagsFile.valid

\* a space-separated data-tags attribute as the sequence of its tags
RECURSIVE SplitSpaces(_, _)
SplitSpaces(s, word) ==
    IF Len(s) = 0 THEN (IF word = <<>> THEN <<>> ELSE <<word>>)
    ELSE IF s[1] = ChSpace
         THEN (IF word = <<>> THEN <<>> ELSE <<word>>) \o SplitSpaces(Tail(s), <<>>)
    ELSE SplitSpaces(Tail(s), Append(word, s[1]))

\* C1: when a run has returned, no row of the listing belongs to a *.html file that
\* was in the scan directory when the run started under a name listed in the ignore
\* registry, also when the sanitizer pass renamed that file during the run.
C1_IgnoredFileNeverListed ==
    pc = "done" =>
        \A i \in 1..Len(dir0) :
            (EndsWith(dir0[i].name, HtmlExt) /\ dir0[i].name \in ignore_list) =>
                \A k \in 1..Len(out.rows), j \in 1..Len(dir) :
                    dir[j].name = out.rows[k].filename => dir[j].ino # dir0[i].ino

\* C2: the rows of the written listing are the collected documents in descending
\* order of sort key: no document's (date-string, sequence) is smaller than that of
\* the document in the row after it.
C2_RowsDescending ==
    pc = "done" =>
        /\ Len(out.rows) = Len(html_files)
        /\ \A k \in 1..Len(out.rows) : out.rows[k].filename = html_files[k].filename
        /\ \A k \in 1..(Len(html_files) - 1) :
              LET a == html_files[k].sort_key
                  b == html_files[k + 1].sort_key
              IN ~(StrLess(a[1], b[1]) \/ (a[1] = b[1] /\ a[2] < b[2]))

\* the spec's example: keys ("20251128",2), ("20251128",0), ("20251201",0) enumerated
\* in that order render as ("20251201",0), ("20251128",2), ("20251128",0)
C2_Witness ==
    /\ pc = "done"
    /\ [i \in 1..Len(dir) |-> dir[i].name]
         = <<D20251128 \o <<95,48,50>> \o HtmlExt, D20251128 \o HtmlExt, D20251201 \o HtmlExt>>
    /\ [k \in 1..Len(html_files) |-> html_files[k].sort_key]
         = << <<D20251201, 0>>, <<D20251128, 2>>, <<D20251128, 0>> >>
    /\ RowNames(out)
         = <<D20251201 \o HtmlExt, D20251128 \o <<95,48,50>> \o HtmlExt, D20251128 \o HtmlExt>>

\* C3: the sanitizer pass never loses or replaces a file: every file of the
\* directory the run started on is still there with its content, the names stay
\* pairwise distinct, a name is only ever changed to a pure-ASCII stem that no file
\* had when the run started, and once the pass is over every *.html file that had
\* a non-ASCII stem has such a new name.
C3_SanitizerRenamesSafely ==
    /\ Len(dir) = Len(dir0)
    /\ \A i, j \in 1..Len(dir) : i # j => dir[i].name # dir[j].name
    /\ \A i \in 1..Len(dir0) : \E j \in 1..Len(dir) :
          /\ dir[j].ino = dir0[i].ino
          /\ dir[j].content = dir0[i].content
          /\ dir[j].mtime = dir0[i].mtime
          /\ dir[j].name # dir0[i].name =>
                (IsAscii(Stem(dir[j].name)) /\ dir[j].name \notin NamesOf(dir0))
          /\ (pc \in AfterPass /\ NonAsciiHtml(dir0[i].name)) => dir[j].name # dir0[i].name

\* a non-ASCII name was renamed while doc-<timestamp>.html and doc-<timestamp>-1.html
\* both existed, and got the suffix -2
C3_Witness ==
    /\ pc = "scan"
    /\ {StampZero \o HtmlExt, StampZero \o <<45,49>> \o HtmlExt} \subseteq NamesOf(dir0)
    /\ \E k \in 1..Len(renamed) :
          /\ NonAsciiHtml(renamed[k][1])
          /\ renamed[k][2] = StampZero \o <<45,50>> \o HtmlExt
          /\ renamed[k][2] \in NamesOf(dir)

\* C4: a file whose stem is pure ASCII gets the "no rename" signal and stays in the
\* directory as it was, and a run that started on a directory of ASCII-stem names
\* only leaves the directory exactly as it was.
C4_AsciiNamesUntouched ==
    /\ \A i \in 1..Len(dir0) :
          IsAscii(Stem(dir0[i].name)) =>
              /\ sanitize_filename(dir0[i].name, now) = None
              /\ \E j \in 1..Len(dir) : dir[j] = dir0[i]
    /\ (\A i \in 1..Len(dir0) : IsAscii(Stem(dir0[i].name))) =>
          (dir = dir0 /\ renamed = <<>>)

\* the pass has visited two or more *.html files, all of ASCII stem
C4_Witness ==
    /\ pc = "scan"
    /\ Len(GlobHtml(dir0)) >= 2
    /\ \A i \in 1..Len(dir0) : IsAscii(Stem(dir0[i].name))
    /\ dir = dir0

\* the sort key of the claim's grammar: 8 digits, then optionally '_' and exactly
\* two digits
TwoDigitKey(filename) ==
    IF Len(filename) >= 8 /\ \A i \in 1..8 : IsDigit(filename[i])
    THEN <<Slice(filename, 1, 8),
           IF Len(filename) >= 11 /\ filename[9] = ChUnderscore
              /\ IsDigit(filename[10]) /\ IsDigit(filename[11])
           THEN ParseInt(Slice(filename, 10, 11)) ELSE 0>>
    ELSE <<NoDateKey, 0>>

\* C5: every collected document's sort key is the leading 8-digit date with the
\* integer of the 2-digit sequence that follows '_', 0 without such a sequence, and
\* ("00000000", 0) when the name does not start with 8 digits.
C5_TwoDigitSequenceKey ==
    \A i \in 1..Len(html_files) :
        html_files[i].sort_key = TwoDigitKey(html_files[i].filename)

\* C6: the tags embedded in every row of the written listing are the tag
\* registry's sequence for the row's filename, none when the registry has no entry.
C6_RowTagsFromRegistry ==
    pc = "done" =>
        \A k \in 1..Len(out.rows) :
            SplitSpaces(out.rows[k].data_tags, <<>>)
                = (IF out.rows[k].filename \in DOMAIN tagsFile.obj
                   THEN tagsFile.obj[out.rows[k].filename] ELSE <<>>)

\* the *.html entries of the directory that are not in the ignore registry
Qualifying ==
    {j \in 1..Len(dir) : EndsWith(dir[j].name, HtmlExt)
                         /\ dir[j].name \notin load_ignore_list(ignoreFile)}

\* C7: the count written into the listing is the number of its document rows, which
\* is the number of *.html files of the post-rename directory that are not ignored;
\* with none of them the listing has one placeholder row and no document row, and
\* with some it has no placeholder row.
C7_CountMatchesRows ==
    pc = "done" =>
        /\ out.count = Len(out.rows)
        /\ Len(out.rows) = Cardinality(Qualifying)
        /\ out.no_docs = (IF Cardinality(Qualifying) = 0 THEN 1 ELSE 0)

\* a directory whose only *.html files are ignored: placeholder row and count 0
C7_Witness ==
    /\ pc = "done"
    /\ Len(GlobHtml(dir)) > 0
    /\ out.count = 0
    /\ out.rows = <<>>
    /\ out.no_docs = 1

\* C8: when a run returns after a run that returned too, and both started on the
\* same directory, free of non-ASCII names, the two listings have the same rows in
\* the same order and the same count; only the "last updated" stamp may differ.
C8_RerunSameListing ==
    (/\ pc = "done"
     /\ prev.ok
     /\ prev.dir = dir0
     /\ \A i \in 1..Len(dir0) : IsAscii(Stem(dir0[i].name))) =>
        /\ out.rows = prev.out.rows
        /\ out.no_docs = prev.out.no_docs
        /\ out.count = prev.out.count

\* a second run over two or more documents, a minute after the first
C8_Witness ==
    /\ pc = "done"
    /\ prev.ok
    /\ prev.dir = dir0
    /\ \A i \in 1..Len(dir0) : IsAscii(Stem(dir0[i].name))
    /\ Len(out.rows) >= 2
    /\ out.rows = prev.out.rows
    /\ out.updated # prev.out.updated

\* C9: with a tags.json that is not valid JSON the run gets no further than loading
\* it and ends in the error; index.html and the scan directory stay as they were
\* when the run started.
C9_BadTagsNoPartialResult ==
    BadTags =>
        /\ pc \in {"start", "load_tags", "error"}
        /\ out = out0
        /\ dir = dir0
        /\ renamed = <<>>

\* the run has raised on a directory that holds a name the sanitizer would rename
C9_Witness ==
    /\ pc = "error"
    /\ BadTags
    /\ \E i \in 1..Len(dir) : NonAsciiHtml(dir[i].name)
    /\ out = StaleOut

\* the display date the claim gives the names of the grammar
ClaimedDate(filename, mtime) ==
    IF StartsWith(filename, D20251201) THEN <<2025, 12, 1>>
    ELSE IF StartsWith(filename, D20251128) THEN <<2025, 11, 28>>
    ELSE IF StartsWith(filename, D20240229) THEN <<2024, 2, 29>>
    ELSE mtime

\* C10: in the written listing a row's display date is the date of the name's
\* leading YYYYMMDD when that is a calendar date, and the file's last-modified date
\* when it is not one (20259999, 20250229) or when the name has no 8-digit prefix;
\* the sort key of a name starting with 20259999 still carries those digits.
C10_DateAndKeyIndependent ==
    pc = "done" =>
        \A k \in 1..Len(out.rows) :
            LET fn == out.rows[k].filename
                e == dir[IndexOfName(dir, fn)]
            IN /\ out.rows[k].date = StrftimeDate(ClaimedDate(fn, e.mtime))
               /\ StartsWith(fn, D20259999) =>
                     /\ html_files[k].sort_key[1] = D20259999
                     /\ StartsWith(out.rows[k].sort_key, D20259999 \o <<ChUnderscore>>)

\* a row for a name starting with 20259999, dated by the file's mtime 2025-11-30
C10_Witness ==
    /\ pc = "done"
    /\ \E k \in 1..Len(out.rows) :
          /\ StartsWith(out.rows[k].filename, D20259999 \o <<95,48,51>>)
          /\ out.rows[k].date = <<50,48,50,53,45,49,49,45,51,48>>
          /\ html_files[k].sort_key = <<D20259999, 3>>


\* C11: in the written listing a row's title is the stripped content of the first
\* <title> element of the file when that is non-empty, else the text of the first
\* <h1> element without its markup when that is non-empty, else the stem of the
\* filename; in whichever order the two elements stand in the file, and never empty.
C11_TitlePrecedence ==
    pc = "done" =>
        \A k \in 1..Len(out.rows) :
            LET fn == out.rows[k].filename
                c == dir[IndexOfName(dir, fn)].content
            IN /\ out.rows[k].title # <<>>
               /\ \A p \in TitleParts, h \in H1Parts :
                     (c.readable /\ c.text \in {p.text \o h.text, h.text \o p.text}) =>
                         out.rows[k].title =
                             (IF p.inner # <<>> THEN p.inner
                              ELSE IF h.inner # <<>> THEN h.inner
                              ELSE Stem(fn))

\* a file with <h1>H</h1> standing before <TITLE> T2 </TITLE> is listed as T2
C11_Witness ==
    /\ pc = "done"
    /\ \E k \in 1..Len(out.rows) :
          /\ dir[IndexOfName(dir, out.rows[k].filename)].content.text
                = <<60,104,49,62,72,60,47,104,49,62>> \o <<60,84,73,84,76,69,62,32,84,50,32,60,47,84,73,84,76,69,62>>
          /\ out.rows[k].title = <<84,50>>


\* the row's file cannot be read
RowUnreadable(row) == ~dir[IndexOfName(dir, row.filename)].content.readable

\* C12: a file that cannot be read never ends the run (only an invalid tags.json
\* does), every such *.html file that is not ignored has a row in the written
\* listing, titled with the stem of its filename, and the rows of the other files
\* are, in content and order, the rows a directory without the unreadable files gets.
C12_ReadFailureKeepsDocument ==
    /\ pc = "error" => BadTags
    /\ pc = "done" =>
          /\ \A j \in Qualifying :
                ~dir[j].content.readable =>
                    \E k \in 1..Len(out.rows) :
                        /\ out.rows[k].filename = dir[j].name
                        /\ out.rows[k].title = Stem(dir[j].name)
          /\ LET healthy == SelectSeq(dir, LAMBDA e : e.content.readable)
                 ref == SortDesc(CollectDocs(healthy, ignore_list, tags_data))
             IN SelectSeq(out.rows, LAMBDA r : ~RowUnreadable(r))
                    = [k \in 1..Len(ref) |-> RenderRow(ref[k])]

\* the unreadable r.html is listed as "r" next to a document titled from its <title>
C12_Witness ==
    /\ pc = "done"
    /\ Len(out.rows) >= 2
    /\ \E k \in 1..Len(out.rows) :
          /\ RowUnreadable(out.rows[k])
          /\ out.rows[k].filename = <<114>> \o HtmlExt
          /\ out.rows[k].title = <<114>>
    /\ \E k \in 1..Len(out.rows) :
          /\ ~RowUnreadable(out.rows[k])
          /\ out.rows[k].title = <<84>>


\* the run is at a step it can take: every step but the rename loop's waits for
\* nothing, and the loop has a name to visit that is a file of the directory
CanStep ==
    /\ pc \in {"start", "load_tags", "rename", "scan", "sort", "render", "write"}
    /\ pc = "rename" => (todo # <<>> /\ Head(todo) \in NamesOf(dir))

\* C13: a missing .docsignore gives the empty ignore set and a listing with a row
\* for every *.html file; a missing tags.json gives the empty mapping and no error;
\* a missing docs/ gives zero documents and the placeholder listing; a run that has
\* not raised on an invalid tags.json can always take its next step, and when it
\* has returned, index.html is the listing it rendered.
C13_MissingInputsAreEmpty ==
    /\ (~ignoreFile.exists /\ pc # "start") => ignore_list = {}
    /\ (~ignoreFile.exists /\ pc = "done") =>
          /\ Len(out.rows) = Len(GlobHtml(dir))
          /\ \A i \in 1..Len(dir) :
                EndsWith(dir[i].name, HtmlExt) =>
                    \E k \in 1..Len(out.rows) : out.rows[k].filename = dir[i].name
    /\ ~tagsFile.exists =>
          /\ pc # "error"
          /\ pc \notin {"start", "load_tags"} => tags_data = <<>>
    /\ ~docs_exists =>
          /\ renamed = <<>>
          /\ html_files = <<>>
          /\ pc = "done" => (out.rows = <<>> /\ out.count = 0 /\ out.no_docs = 1)
    /\ pc = "error" => BadTags
    /\ pc \notin {"done", "error"} => CanStep
    /\ pc = "done" =>
          /\ out.exists
          /\ out = html_content
          /\ out.updated = StrftimeMinute(now)

\* a run without .docsignore, tags.json and docs/ has returned and replaced the
\* index.html it found by the placeholder listing
C13_Witness ==
    /\ pc = "done"
    /\ ~ignoreFile.exists
    /\ ~tagsFile.exists
    /\ ~docs_exists
    /\ out0 = StaleOut
    /\ out # StaleOut
    /\ out.no_docs = 1


\* the order of the steps of a run: which position follows which
StepEdges ==
    { <<"start", "load_tags">>, <<"load_tags", "rename">>, <<"load_tags", "scan">>,
      <<"load_tags", "error">>, <<"rename", "scan">>, <<"scan", "sort">>,
      <<"sort", "render">>, <<"render", "write">>, <<"write", "done">> }

\* a step that stays within the run
StepInOrder ==
    /\ pc' # pc => <<pc, pc'>> \in StepEdges
    /\ ignore_list' # ignore_list => pc = "start"
    /\ tags_data' # tags_data => pc = "load_tags"
    /\ (dir' # dir \/ renamed' # renamed) => pc = "rename"
    /\ todo' # todo => pc \in {"load_tags", "rename"}
    /\ html_files' # html_files => pc \in {"scan", "sort"}
    /\ html_content' # html_content => pc = "render"
    /\ out' # out => pc = "write"

\* the pass is over for every file before any document is collected, and what is
\* collected carries the names the pass left
PassBeforeExtraction ==
    /\ html_files # <<>> => pc \in {"sort", "render", "write", "done"}
    /\ pc \in AfterPass =>
          /\ todo = <<>>
          /\ \A i \in 1..Len(dir) : ~NonAsciiHtml(dir[i].name)
    /\ \A k \in 1..Len(html_files) :
          /\ IsAscii(html_files[k].filename)
          /\ html_files[k].filename \in NamesOf(dir)
    /\ pc \in {"sort", "render", "write", "done"} =>
          \A r \in 1..Len(renamed) :
              /\ \A k \in 1..Len(html_files) : html_files[k].filename # renamed[r][1]
              /\ \E k \in 1..Len(html_files) :
                    /\ html_files[k].filename = renamed[r][2]
                    /\ dir[IndexOfName(dir, renamed[r][2])].ino
                          = dir0[IndexOfName(dir0, renamed[r][1])].ino

\* C14: the steps of a run follow one another in the order load ignore registry,
\* load tag registry, sanitizer pass, scan and extraction, sort, render, write, each
\* touching its own data only; no document is collected before the pass has visited
\* every file, every collected filename is pure ASCII, and a renamed file is
\* collected under its new name.
C14_FixedStepOrder ==
    /\ []PassBeforeExtraction
    /\ [][run' = run => StepInOrder]_vars

\* a run has returned with a row for a file the pass renamed
C14_Witness ==
    /\ pc = "done"
    /\ renamed # <<>>
    /\ NonAsciiHtml(renamed[1][1])
    /\ \E k \in 1..Len(out.rows) : out.rows[k].filename = renamed[1][2]


\* C15: two rows of the written listing whose filenames have the same sort key
\* stand in the order in which the directory scan enumerated their files.
C15_StableSort ==
    pc = "done" =>
        \A k, l \in 1..Len(out.rows) :
            (/\ k < l
             /\ get_sort_key_from_filename(out.rows[k].filename)
                   = get_sort_key_from_filename(out.rows[l].filename)) =>
                IndexOfName(dir, out.rows[k].filename) < IndexOfName(dir, out.rows[l].filename)

\* enumerated as s.html, 20251201_00.html, r.html: the dated file moves to the
\* front, s.html stays before r.html
C15_Witness ==
    /\ pc = "done"
    /\ [i \in 1..Len(dir) |-> dir[i].name]
          = << <<115>> \o HtmlExt, D20251201 \o <<95,48,48>> \o HtmlExt, <<114>> \o HtmlExt >>
    /\ RowNames(out)
          = << D20251201 \o <<95,48,48>> \o HtmlExt, <<115>> \o HtmlExt, <<114>> \o HtmlExt >>


\* a rename of the pass gives the file doc-<timestamp of this second>.html when no
\* file has that name, else doc-<timestamp>-k.html for the least k >= 1 that no
\* file has
TargetAsClaimed ==
    Len(renamed') = Len(renamed) + 1 =>
        LET tgt == renamed'[Len(renamed')][2]
            base == DocPrefix \o StrftimeStamp(now)
            cand(k) == base \o <<ChDash>> \o Dec(k) \o HtmlExt
        IN /\ NonAsciiHtml(renamed'[Len(renamed')][1])
           /\ IF base \o HtmlExt \notin NamesOf(dir)
              THEN tgt = base \o HtmlExt
              ELSE \E k \in 1..Len(dir) :
                      /\ tgt = cand(k)
                      /\ cand(k) \notin NamesOf(dir)
                      /\ \A j \in 1..(k - 1) : cand(j) \in NamesOf(dir)

\* the targets of the pass are pairwise distinct names of the directory, and the
\* directory has as many *.html files as when the run started
TargetsDistinct ==
    /\ \A r, q \in 1..Len(renamed) : r # q => renamed[r][2] # renamed[q][2]
    /\ \A r \in 1..Len(renamed) : renamed[r][2] \in NamesOf(dir)
    /\ Len(GlobHtml(dir)) = Len(GlobHtml(dir0))

\* C16: the files renamed in one sanitizer pass, within the same second too, get
\* pairwise distinct names: doc-<timestamp>.html when that name is free, else
\* doc-<timestamp>-k.html for the smallest k >= 1 whose name is free at that moment;
\* the directory keeps its number of *.html files.
C16_SameSecondTargetsDistinct ==
    /\ []TargetsDistinct
    /\ [][TargetAsClaimed]_vars

\* two non-ASCII names renamed in the second 00:00:00: the first is now
\* doc-20251201-000000.html, the second doc-20251201-000000-1.html
C16_Witness ==
    /\ pc = "scan"
    /\ now = 0
    /\ Len(renamed) = 2
    /\ NonAsciiHtml(renamed[1][1]) /\ NonAsciiHtml(renamed[2][1])
    /\ renamed[1][2] = StampZero \o HtmlExt
    /\ renamed[2][2] = StampZero \o <<45,49>> \o HtmlExt
    /\ {renamed[1][2], renamed[2][2]} \subseteq NamesOf(dir)


\* C17: for any two rows of the written listing the embedded key strings compare
\* as the (date-string, sequence) keys of their filenames do, whatever sequence
\* number the name carries, and after two clicks on the sort button the page shows
\* the rows in the order of the written listing.
C17_ToggleMatchesBuildOrder ==
    pc = "done" =>
        /\ \A k, l \in 1..Len(out.rows) :
              StrLess(out.rows[k].sort_key, out.rows[l].sort_key)
                  <=> KeyLess(get_sort_key_from_filename(out.rows[k].filename),
                              get_sort_key_from_filename(out.rows[l].filename))
        /\ (page.toggles = 2 /\ page.isDescending) =>
              page.items = [k \in 1..Len(out.rows) |-> k]


\* the numbers that follow the occurrences of mark in s, in order
RECURSIVE MarkedNumbers(_, _)
MarkedNumbers(s, mark) ==
    LET a == Find(s, mark, 1)
        e == SkipDigits(s, a + Len(mark))
    IN IF a = 0 THEN <<>>
       ELSE <<ParseInt(Slice(s, a + Len(mark), e - 1))>>
            \o MarkedNumbers(Slice(s, e, Len(s)), mark)

\* the number of chapters the claim counts in lines[i..]: the "## " headings outside
\* an annotation block (from a --- line followed by a **【...】** line to the next ---
\* line), but for those containing はじめに while no chapter has been counted
RECURSIVE ClaimedChapters(_, _, _, _)
ClaimedChapters(lines, i, inAnn, n) ==
    IF i > Len(lines) THEN n
    ELSE LET st == Strip(lines[i])
         IN IF st = Rule
            THEN ClaimedChapters(lines, i + 1,
                     ~inAnn /\ i < Len(lines) /\ MatchAnnTitle(Strip(lines[i + 1])), n)
            ELSE IF ~inAnn /\ StartsWith(st, H2Mark) /\ ~(Contains(st, Intro) /\ n = 0)
            THEN ClaimedChapters(lines, i + 1, inAnn, n + 1)
            ELSE ClaimedChapters(lines, i + 1, inAnn, n)

\* C18: the returned HTML has the headings with id chapter1 .. chapter<n> in this
\* order, n being the number of "## " headings outside annotation blocks that are
\* not an はじめに heading before the first chapter, and when n >= 1 it has the
\* table-of-contents entries linking to #chapter1 .. #chapter<n>, in this order.
C18_TocListsEveryChapter ==
    md.pc = "done" =>
        LET n == ClaimedChapters(md.lines, 1, FALSE, 0)
        IN /\ MarkedNumbers(md.final_content_html, H2ChapterOpen) = [k \in 1..n |-> k]
           /\ n >= 1 =>
                 MarkedNumbers(md.final_content_html, TocLinkOpen) = [k \in 1..n |-> k]

====
